---- MODULE Spec2Model ----
(***************************************************************************)
(* A model of generate_html_report.py: the YAML loader, the as-is and the  *)
(* normalized renderers, the table-row assembler, the semantic catalog     *)
(* builder and the report assembler.                                       *)
(*                                                                         *)
(* Text is a sequence of symbols.  A character of data (a YAML key or      *)
(* scalar) is a one-character string; a literal the code emits (a tag such *)
(* as "<ul>", a fixed phrase such as "No categories") is one symbol.       *)
(* A Python value is a record [ty, v]; a mapping keeps its entries in      *)
(* document order as a sequence of <<key, value>> pairs.                   *)
(***************************************************************************)
EXTENDS Integers, Sequences, FiniteSets, TLC

\* The list a comprehension [i \in 1..n |-> e] builds, as a sequence proper.
List(f) == f \o <<>>

\* ------------------------------------------------------------ characters

\* The printable ASCII characters, code points 32..126, in code-point order
\* (code point 96 is written (grave): a string cannot hold that character).
Ascii ==
  << " ", "!", "\"", "#", "$", "%", "&", "'", "(", ")", "*", "+", ",", "-", ".", "/",
     "0", "1", "2", "3", "4", "5", "6", "7", "8", "9", ":", ";", "<", "=", ">", "?",
     "@", "A", "B", "C", "D", "E", "F", "G", "H", "I", "J", "K", "L", "M", "N", "O",
     "P", "Q", "R", "S", "T", "U", "V", "W", "X", "Y", "Z", "[", "\\", "]", "^", "_",
     "(grave)", "a", "b", "c", "d", "e", "f", "g", "h", "i", "j", "k", "l", "m", "n", "o",
     "p", "q", "r", "s", "t", "u", "v", "w", "x", "y", "z", "{", "|", "}", "~" >>

\* ord(c)
Ord(c) == 31 + (CHOOSE i \in 1..Len(Ascii) : Ascii[i] = c)

\* chr(n)
Chr(n) == Ascii[n - 31]

IsUpper(c) == Ord(c) \in 65..90

IsLower(c) == Ord(c) \in 97..122

\* str.lower()
Lower(s) == List([i \in 1..Len(s) |-> IF IsUpper(s[i]) THEN Chr(Ord(s[i]) + 32) ELSE s[i]])

\* str.title(): a letter that follows a non-letter is upper-cased, any other
\* letter is lower-cased.
Title(s) ==
  List([i \in 1..Len(s) |->
     LET cased(c) == IsUpper(c) \/ IsLower(c)
         start == i = 1 \/ ~cased(s[i - 1])
     IN  IF start /\ IsLower(s[i]) THEN Chr(Ord(s[i]) - 32)
         ELSE IF ~start /\ IsUpper(s[i]) THEN Chr(Ord(s[i]) + 32)
         ELSE s[i]])

RECURSIVE ReplaceFrom(_, _, _, _)
\* str.replace(old, new) for a one-character old
ReplaceFrom(s, old, new, i) ==
  IF i > Len(s) THEN <<>>
  ELSE (IF s[i] = old THEN new ELSE <<s[i]>>) \o ReplaceFrom(s, old, new, i + 1)

Replace(s, old, new) == ReplaceFrom(s, old, new, 1)

RECURSIVE StrLessFrom(_, _, _)
\* a < b for two str values: lexicographic by code point
StrLessFrom(a, b, i) ==
  IF i > Len(b) THEN FALSE
  ELSE IF i > Len(a) THEN TRUE
  ELSE IF a[i] = b[i] THEN StrLessFrom(a, b, i + 1)
  ELSE Ord(a[i]) < Ord(b[i])

StrLess(a, b) == StrLessFrom(a, b, 1)

RECURSIVE Insert(_, _)
\* x inserted in the ascending sequence s
Insert(x, s) ==
  IF s = <<>> THEN <<x>>
  ELSE IF StrLess(x, s[1]) THEN <<x>> \o s
  ELSE <<s[1]>> \o Insert(x, Tail(s))

RECURSIVE Sorted(_)
\* sorted(S) for a set of str values
Sorted(S) ==
  IF S = {} THEN <<>>
  ELSE LET x == CHOOSE y \in S : TRUE IN Insert(x, Sorted(S \ {x}))

RECURSIVE JoinFrom(_, _, _)
\* sep.join(parts)
JoinFrom(sep, parts, i) ==
  IF i > Len(parts) THEN <<>>
  ELSE IF i = Len(parts) THEN parts[i]
  ELSE parts[i] \o sep \o JoinFrom(sep, parts, i + 1)

Join(sep, parts) == JoinFrom(sep, parts, 1)

RECURSIVE Rep(_, _)
\* s * n
Rep(s, n) == IF n <= 0 THEN <<>> ELSE s \o Rep(s, n - 1)

\* --------------------------------------------------------- Python values

PStr(s) == [ty |-> "str", v |-> s]

PList(xs) == [ty |-> "list", v |-> xs]

PDict(pairs) == [ty |-> "dict", v |-> pairs]

PInt(n) == [ty |-> "int", v |-> n]

PBool(b) == [ty |-> "bool", v |-> b]

PNone == [ty |-> "none", v |-> <<>>]

\* bool(v)
Truthy(x) ==
  CASE x.ty = "none" -> FALSE
    [] x.ty = "bool" -> x.v
    [] x.ty = "int" -> x.v # 0
    [] OTHER -> x.v # <<>>

IsDict(x) == x.ty = "dict"

IsList(x) == x.ty = "list"

\* whether a for loop over x is defined
IsIterable(x) == x.ty \in {"list", "str", "dict"}

\* the values a for loop over x yields: the elements of a list, the
\* characters of a str, the keys of a dict
Iter(x) ==
  CASE x.ty = "list" -> x.v
    [] x.ty = "str" -> List([i \in 1..Len(x.v) |-> PStr(<<x.v[i]>>)])
    [] x.ty = "dict" -> List([i \in 1..Len(x.v) |-> PStr(x.v[i][1])])

HasKey(d, k) == \E i \in 1..Len(d.v) : d.v[i][1] = k

\* dict.get(k, default)
Get(d, k, default) ==
  IF HasKey(d, k)
  THEN d.v[CHOOSE i \in 1..Len(d.v) : d.v[i][1] = k][2]
  ELSE default

RECURSIVE Digits(_)
Digits(n) == IF n < 10 THEN <<Chr(48 + n)>> ELSE Digits(n \div 10) \o <<Chr(48 + (n % 10))>>

RECURSIVE Repr(_)
RECURSIVE Format(_)
\* repr(x)
Repr(x) ==
  CASE x.ty = "str" -> <<"'">> \o x.v \o <<"'">>
    [] x.ty = "list" ->
         <<"[">> \o Join(<<",", " ">>, List([i \in 1..Len(x.v) |-> Repr(x.v[i])])) \o <<"]">>
    [] x.ty = "dict" ->
         <<"{">> \o Join(<<",", " ">>,
                        List([i \in 1..Len(x.v) |->
                           Repr(PStr(x.v[i][1])) \o <<":", " ">> \o Repr(x.v[i][2])]))
                \o <<"}">>
    [] OTHER -> Format(x)

\* str(x), what an f-string puts for {x}
Format(x) ==
  CASE x.ty = "str" -> x.v
    [] x.ty = "int" -> IF x.v < 0 THEN <<"-">> \o Digits(0 - x.v) ELSE Digits(x.v)
    [] x.ty = "bool" -> IF x.v THEN <<"T", "r", "u", "e">> ELSE <<"F", "a", "l", "s", "e">>
    [] x.ty = "none" -> <<"N", "o", "n", "e">>
    [] OTHER -> Repr(x)

\* ------------------------------------------------- results and exceptions

\* A call returns a value or raises.
Ok(val) == [exc |-> "none", val |-> val]

Raise(e) == [exc |-> e, val |-> <<>>]

AllOk(rs) == \A i \in 1..Len(rs) : rs[i].exc = "none"

\* the exception of the first call of rs that raised
FirstExc(rs) ==
  rs[CHOOSE i \in 1..Len(rs) : rs[i].exc # "none" /\ \A j \in 1..(i - 1) : rs[j].exc = "none"].exc

RECURSIVE FlattenFrom(_, _)
FlattenFrom(ss, i) == IF i > Len(ss) THEN <<>> ELSE ss[i] \o FlattenFrom(ss, i + 1)

\* the concatenation of a sequence of sequences
Flatten(ss) == FlattenFrom(ss, 1)

\* the values of a sequence of results
Vals(rs) == List([i \in 1..Len(rs) |-> rs[i].val])

\* what a loop appended over its iterations rs, or the exception that ended it
Collect(rs) == IF AllOk(rs) THEN Ok(Flatten(Vals(rs))) ELSE Raise(FirstExc(rs))

\* before, what r returned, after; or the exception r raised
Wrap(before, r, after) ==
  IF r.exc # "none" THEN Raise(r.exc) ELSE Ok(before \o r.val \o after)

\* the text r returned as one element of html_parts
Part(r) == IF r.exc # "none" THEN Raise(r.exc) ELSE Ok(<<r.val>>)

\* "\n".join(html_parts)
Lines(r) == IF r.exc # "none" THEN Raise(r.exc) ELSE Ok(Join(<<"\n">>, r.val))

\* ------------------------------------------------------------- dict keys

s_applications == <<"a", "p", "p", "l", "i", "c", "a", "t", "i", "o", "n", "s">>

s_categories == <<"c", "a", "t", "e", "g", "o", "r", "i", "e", "s">>

s_display_name == <<"d", "i", "s", "p", "l", "a", "y", "_", "n", "a", "m", "e">>

s_description == <<"d", "e", "s", "c", "r", "i", "p", "t", "i", "o", "n">>

s_fields == <<"f", "i", "e", "l", "d", "s">>

s_facets == <<"f", "a", "c", "e", "t", "s">>

s_values == <<"v", "a", "l", "u", "e", "s">>

s_semantic_key == <<"s", "e", "m", "a", "n", "t", "i", "c", "_", "k", "e", "y">>

s_current_key == <<"c", "u", "r", "r", "e", "n", "t", "_", "k", "e", "y">>

s_metadata == <<"m", "e", "t", "a", "d", "a", "t", "a">>

s_core == <<"c", "o", "r", "e">>

\* a == b for two Python values
PyEq(a, b) == a.ty = b.ty /\ a.v = b.v

\* ------------------------------------------------------------- renderers

\* f"{indent}<li>{field}</li>" for each field
Bullets(items, indent) ==
  List([i \in 1..Len(items) |-> indent \o <<"<li>">> \o Format(items[i]) \o <<"</li>">>])

format_fields_as_bullets(fields, indent_level) ==
  IF ~Truthy(fields) THEN Ok(<<"<li>", "No fields", "</li>">>)
  ELSE IF ~IsIterable(fields) THEN Raise("TypeError")
  ELSE Ok(Join(<<"\n">>, Bullets(Iter(fields), Rep(<<"&nbsp;">>, indent_level * 4))))

\* "<ul>", the bullets of xs, "</ul>": three html_parts
BulletList(xs) ==
  Wrap(<< <<"<ul>">> >>, Part(format_fields_as_bullets(xs, 0)), << <<"</ul>">> >>)

\* The nested list of a values entry, when there is one.
ValuesParts(values) == IF Truthy(values) THEN BulletList(values) ELSE Ok(<<>>)

\* An entry of a facets mapping labelled by its key whatever its display_name.
FacetEntryPartsByKey(facet_key, facet_data) ==
  IF IsDict(facet_data)
  THEN Wrap(<< <<"<li>">> \o facet_key >>,
            ValuesParts(Get(facet_data, s_values, PList(<<>>))),
            << <<"</li>">> >>)
  ELSE Ok(<< <<"<li>">> \o facet_key \o <<"</li>">> >>)

\* One entry of a facets mapping: the html_parts it appends.
FacetEntryParts(facet_key, facet_data) ==
  IF IsDict(facet_data)
  THEN Wrap(<< <<"<li>">> \o Format(Get(facet_data, s_display_name, PStr(facet_key))) >>,
            ValuesParts(Get(facet_data, s_values, PList(<<>>))),
            << <<"</li>">> >>)
  ELSE Ok(<< <<"<li>">> \o facet_key \o <<"</li>">> >>)

\* The loop over the entries of a facets mapping.
FacetEntries(entries) ==
  Collect(List([i \in 1..Len(entries) |-> FacetEntryParts(entries[i][1], entries[i][2])]))

\* The facets value of a category: the html_parts between "<ul>" and "</ul>".
FacetsParts(facets) ==
  IF IsList(facets) THEN Part(format_fields_as_bullets(facets, 0))
  ELSE IF IsDict(facets) THEN FacetEntries(facets.v)
  ELSE Ok(<< <<"<li>", "Mixed structure: ">> \o Format(facets) \o <<"</li>">> >>)

\* The html_parts of a mapping category's fields (metadata) or facets.
CategoryBody(category_data, data_type) ==
  IF data_type = s_metadata
  THEN ValuesParts(Get(category_data, s_fields, PList(<<>>)))
  ELSE IF data_type = s_facets /\ Truthy(Get(category_data, s_facets, PList(<<>>)))
  THEN Wrap(<< <<"<ul>">> >>, FacetsParts(Get(category_data, s_facets, PList(<<>>))),
            << <<"</ul>">> >>)
  ELSE Ok(<<>>)

\* f"<li><strong>{display_name}</strong>"
CategoryHead(category_key, category_data) ==
  <<"<li>", "<strong>">> \o Format(Get(category_data, s_display_name, PStr(category_key)))
  \o <<"</strong>">>

\* One category of the as-is renderer: the html_parts it appends.
CategoryParts(category_key, category_data, data_type) ==
  IF IsDict(category_data)
  THEN Wrap(<<CategoryHead(category_key, category_data)>>,
            CategoryBody(category_data, data_type),
            << <<"</li>">> >>)
  ELSE Wrap(<< <<"<li>">> \o category_key >>,
            IF IsList(category_data) THEN BulletList(category_data) ELSE Ok(<<>>),
            << <<"</li>">> >>)

NoCategories == <<"<ul>", "<li>", "No categories", "</li>", "</ul>">>

\* The loop over the categories of the as-is renderer.
CategoryLoop(categories, data_type) ==
  Collect(List([i \in 1..Len(categories) |->
                  CategoryParts(categories[i][1], categories[i][2], data_type)]))

format_category_structure(categories, data_type) ==
  IF ~Truthy(categories) THEN Ok(NoCategories)
  ELSE IF ~IsDict(categories) THEN Raise("AttributeError")
  ELSE Lines(Wrap(<< <<"<ul>">> >>, CategoryLoop(categories.v, data_type), << <<"</ul>">> >>))

\* whether the normalized renderer appends " <em>(was: current_key)</em>"
\* A note shown for every non-empty current_key.
ShowsMigrationAlways(current_key, display_name) == Truthy(current_key)

\* if current_key and current_key != display_name_field
ShowsMigration(current_key, display_name) ==
  Truthy(current_key) /\ ~PyEq(current_key, display_name)

\* f" <em>(was: {current_key})</em>", when it is appended
MigrationParts(current_key, display_name) ==
  IF ShowsMigration(current_key, display_name)
  THEN << <<" ", "<em>", "(was: ">> \o Format(current_key) \o <<")", "</em>">> >>
  ELSE <<>>

\* The key, the display name and the migration note of a structured entry.
EntryHead(entry) ==
  << <<"<li>", "<code>">> \o Format(Get(entry, s_semantic_key, PStr(<<>>)))
        \o <<"</code>", " - ">> \o Format(Get(entry, s_display_name, PStr(<<>>))) >>
  \o MigrationParts(Get(entry, s_current_key, PStr(<<>>)),
                    Get(entry, s_display_name, PStr(<<>>)))

\* One entry of a normalized fields list.
NormalizedFieldParts(field) ==
  IF IsDict(field) THEN Ok(EntryHead(field) \o << <<"</li>">> >>)
  ELSE Ok(<< <<"<li>">> \o Format(field) \o <<"</li>">> >>)

\* One entry of a normalized facets list.
NormalizedFacetParts(facet) ==
  IF IsDict(facet)
  THEN Wrap(EntryHead(facet), ValuesParts(Get(facet, s_values, PList(<<>>))),
            << <<"</li>">> >>)
  ELSE Ok(<< <<"<li>">> \o Format(facet) \o <<"</li>">> >>)

\* The loop over the fields (metadata) or the facets of a normalized category.
NormalizedEntries(items, data_type) ==
  Collect(List([i \in 1..Len(items) |->
                  IF data_type = s_metadata THEN NormalizedFieldParts(items[i])
                  ELSE NormalizedFacetParts(items[i])]))

\* The html_parts of a normalized category's fields or facets value.
NormalizedBody(entries, data_type) ==
  IF data_type \notin {s_metadata, s_facets} \/ ~Truthy(entries) THEN Ok(<<>>)
  ELSE IF ~IsIterable(entries) THEN Raise("TypeError")
  ELSE Wrap(<< <<"<ul>">> >>, NormalizedEntries(Iter(entries), data_type), << <<"</ul>">> >>)

\* One category of the normalized renderer: the html_parts it appends (none
\* for a category that is not a mapping).
NormalizedCategoryParts(category_key, category_data, data_type) ==
  IF ~IsDict(category_data) THEN Ok(<<>>)
  ELSE Wrap(<<CategoryHead(category_key, category_data)>>,
            NormalizedBody(Get(category_data,
                               IF data_type = s_metadata THEN s_fields ELSE s_facets,
                               PList(<<>>)),
                           data_type),
            << <<"</li>">> >>)

\* The loop over the categories of the normalized renderer.
NormalizedLoop(categories, data_type) ==
  Collect(List([i \in 1..Len(categories) |->
                  NormalizedCategoryParts(categories[i][1], categories[i][2], data_type)]))

format_normalized_structure(categories, data_type) ==
  IF ~Truthy(categories) THEN Ok(NoCategories)
  ELSE IF ~IsDict(categories) THEN Raise("AttributeError")
  ELSE Lines(Wrap(<< <<"<ul>">> >>, NormalizedLoop(categories.v, data_type), << <<"</ul>">> >>))

\* ---------------------------------------------------------- table rows

\* The application names of the report, in column order.
apps ==
  << <<"C", "l", "o", "u", "d", "s">>,
     <<"D", "a", "t", "a", "b", "a", "s", "e">>,
     <<"I", "n", "f", "r", "a", " ", "a", "n", "d", " ", "O", "p", "e", "r", "a", "t", "i", "o", "n", "s">>,
     <<"K", "u", "b", "e", "r", "n", "e", "t", "e", "s">>,
     <<"L", "o", "g", "s">>,
     <<"S", "e", "r", "v", "i", "c", "e", "s">>,
     <<"T", "r", "a", "c", "i", "n", "g">> >>

\* app.lower().replace(' ', '_').replace('&', 'and')
AppKey(app) == Replace(Replace(Lower(app), " ", <<"_">>), "&", <<"a", "n", "d">>)

\* x.get(key, {}) of a value that may not be a mapping
GetMapping(x, key) ==
  IF x.exc # "none" THEN Raise(x.exc)
  ELSE IF ~IsDict(x.val) THEN Raise("AttributeError")
  ELSE Ok(Get(x.val, key, PDict(<<>>)))

\* data.get('applications', {}).get(app_key, {}).get('categories', {})
AppCategories(data, app) ==
  GetMapping(GetMapping(GetMapping(Ok(data), s_applications), AppKey(app)), s_categories)

\* The renderer is_normalized selects, on the categories looked up.
Render(categories, data_type, is_normalized) ==
  IF categories.exc # "none" THEN Raise(categories.exc)
  ELSE IF is_normalized THEN format_normalized_structure(categories.val, data_type)
  ELSE format_category_structure(categories.val, data_type)

\* The content of one application's cell.
CellContent(data, app, data_type, is_normalized) ==
  Render(AppCategories(data, app), data_type, is_normalized)

\* The loop over the applications of one row.
Cells(app_names, data, data_type, is_normalized) ==
  Collect(List([i \in 1..Len(app_names) |->
                  Wrap(<<"<td>">>, CellContent(data, app_names[i], data_type, is_normalized),
                       <<"</td>">>)]))

generate_table_row(app_names, data, data_type, is_normalized) ==
  Wrap(<<"<tr>", "<td>", "<strong>">> \o Title(data_type) \o <<"</strong>", "</td>">>,
       Cells(app_names, data, data_type, is_normalized),
       <<"</tr>">>)

\* ------------------------------------------------------ semantic catalog

\* The accumulators of generate_official_categories_table: categories maps a
\* category name to its description and its set of key strings,
\* semantic_key_registry maps a semantic key to its display name; exc is the
\* exception that ended the scan, if any.
EmptyCatalog == [categories |-> <<>>, semantic_key_registry |-> <<>>, exc |-> "none"]

\* f"{semantic_key} - {canonical_display}"
KeyString(semantic_key, canonical_display) ==
  Format(semantic_key) \o <<" ", "-", " ">> \o Format(canonical_display)

\* A registry that keeps the display name of the latest occurrence.
RegisterLatest(registry, semantic_key, display_name) ==
  [k \in DOMAIN registry \cup {semantic_key} |->
     IF k = semantic_key THEN display_name ELSE registry[k]]

\* The registry after one occurrence of semantic_key with display_name.
Register(registry, semantic_key, display_name) ==
  IF semantic_key \in DOMAIN registry THEN registry
  ELSE registry @@ (semantic_key :> display_name)

\* One field or facet of a category that is in the catalog.
CatalogEntry(st, cat_name, entry) ==
  IF ~IsDict(entry) THEN st
  ELSE LET semantic_key == Get(entry, s_semantic_key, PStr(<<>>))
           display_name == Get(entry, s_display_name, PStr(<<>>))
       IN  IF ~(Truthy(semantic_key) /\ Truthy(display_name)) THEN st
           ELSE IF semantic_key.ty \in {"list", "dict"} THEN [st EXCEPT !.exc = "TypeError"]
           ELSE LET registry == Register(st.semantic_key_registry, semantic_key, display_name)
                    canonical_display == registry[semantic_key]
                IN  [st EXCEPT
                       !.semantic_key_registry = registry,
                       !.categories[cat_name].semantic_keys =
                          @ \cup {KeyString(semantic_key, canonical_display)}]

RECURSIVE CatalogEntries(_, _, _, _)
\* The loop over the fields or facets of one category, from entry i on.
CatalogEntries(st, cat_name, entries, i) ==
  IF i > Len(entries) \/ st.exc # "none" THEN st
  ELSE CatalogEntries(CatalogEntry(st, cat_name, entries[i]), cat_name, entries, i + 1)

\* A skip that compares the name with 'core' as it is written.
IsCoreAsWritten(cat_name) == cat_name = s_core

\* whether the catalog skips a category of this name
IsCore(cat_name) == Lower(cat_name) = s_core

\* The catalog entry a category's first occurrence creates.
NewCategory(cat_data) ==
  [description |-> Get(cat_data, s_description, PStr(<<>>)), semantic_keys |-> {}]

\* A scan that fills in an empty description from a later occurrence.
CreatedNonEmpty(st, cat_name, cat_data) ==
  IF cat_name \notin DOMAIN st.categories
  THEN [st EXCEPT !.categories = @ @@ (cat_name :> NewCategory(cat_data))]
  ELSE IF Truthy(st.categories[cat_name].description) THEN st
  ELSE [st EXCEPT !.categories[cat_name].description =
                     Get(cat_data, s_description, PStr(<<>>))]

\* The scan after "if cat_name not in categories": the first occurrence of a
\* name creates its entry, a later one leaves it as it is.
Created(st, cat_name, cat_data) ==
  IF cat_name \in DOMAIN st.categories THEN st
  ELSE [st EXCEPT !.categories = @ @@ (cat_name :> NewCategory(cat_data))]

\* One category of one application; entries_key is 'fields' or 'facets'.
CatalogCategory(st, cat_key, cat_data, entries_key) ==
  IF ~IsDict(cat_data) THEN st
  ELSE LET cat_name == Get(cat_data, s_display_name, PStr(cat_key))
       IN  IF cat_name.ty # "str" THEN [st EXCEPT !.exc = "AttributeError"]
           ELSE IF IsCore(cat_name.v) THEN st
           ELSE LET created == Created(st, cat_name.v, cat_data)
                    entries == Get(cat_data, entries_key, PList(<<>>))
                IN  IF ~IsIterable(entries) THEN [created EXCEPT !.exc = "TypeError"]
                    ELSE CatalogEntries(created, cat_name.v, Iter(entries), 1)

RECURSIVE CatalogCategories(_, _, _, _)
\* The loop over the categories of one application, from category i on.
CatalogCategories(st, categories, i, entries_key) ==
  IF i > Len(categories) \/ st.exc # "none" THEN st
  ELSE CatalogCategories(
         CatalogCategory(st, categories[i][1], categories[i][2], entries_key),
         categories, i + 1, entries_key)

RECURSIVE CatalogApplications(_, _, _, _)
\* The loop over the applications of one dataset, from application i on.
CatalogApplications(st, applications, i, entries_key) ==
  IF i > Len(applications) \/ st.exc # "none" THEN st
  ELSE LET app_data == applications[i][2]
       IN  IF ~IsDict(app_data) THEN [st EXCEPT !.exc = "AttributeError"]
           ELSE LET categories == Get(app_data, s_categories, PDict(<<>>))
                IN  IF ~IsDict(categories) THEN [st EXCEPT !.exc = "AttributeError"]
                    ELSE CatalogApplications(
                           CatalogCategories(st, categories.v, 1, entries_key),
                           applications, i + 1, entries_key)

\* One pass ("Process metadata", "Process facets") over a dataset.
CatalogPass(st, data, entries_key) ==
  IF st.exc # "none" THEN st
  ELSE IF ~IsDict(data) THEN [st EXCEPT !.exc = "AttributeError"]
  ELSE LET applications == Get(data, s_applications, PDict(<<>>))
       IN  IF ~IsDict(applications) THEN [st EXCEPT !.exc = "AttributeError"]
           ELSE CatalogApplications(st, applications.v, 1, entries_key)

\* The two passes in the other order: facets first, then metadata.
CollectCatalogFacetsFirst(normalized_metadata, normalized_facets) ==
  CatalogPass(CatalogPass(EmptyCatalog, normalized_facets, s_facets),
              normalized_metadata, s_fields)

\* The accumulators after both passes: metadata first, then facets.
CollectCatalog(normalized_metadata, normalized_facets) ==
  CatalogPass(CatalogPass(EmptyCatalog, normalized_metadata, s_fields),
              normalized_facets, s_facets)

\* The rows in descending order.
RowOrderDescending(categories) ==
  LET up == Sorted(DOMAIN categories)
  IN  List([i \in 1..Len(up) |-> up[Len(up) + 1 - i]])

\* The order of the catalog's rows.
RowOrder(categories) == Sorted(DOMAIN categories)

\* The bullets of one row's key set.
KeysHtml(semantic_keys) ==
  LET keys == Sorted(semantic_keys)
  IN  IF keys # <<>>
      THEN <<"<ul>">>
           \o Flatten(List([i \in 1..Len(keys) |->
                         <<"<li>", "<strong>">> \o keys[i] \o <<"</strong>", "</li>">>]))
           \o <<"</ul>">>
      ELSE <<"<ul>", "<li>", "No semantic keys defined", "</li>", "</ul>">>

TableHeader ==
  <<"<tr><th>Category</th><th>Description</th><th>Semantic Keys and Display Names</th></tr>">>

\* The html_parts of one catalog row.
RowParts(cat_name, cat_info) ==
  << <<"<tr>">>,
     <<"<td>", "<strong>">> \o cat_name \o <<"</strong>", "</td>">>,
     <<"<td>">> \o Format(cat_info.description) \o <<"</td>">>,
     <<"<td>">> \o KeysHtml(cat_info.semantic_keys) \o <<"</td>">>,
     <<"</tr>">> >>

\* "Generate HTML table": the table of the collected categories.
CatalogTable(categories) ==
  LET names == RowOrder(categories)
  IN  Join(<<"\n">>,
           << <<"<table>">>, <<"<thead>">>, TableHeader, <<"</thead>">>, <<"<tbody>">> >>
           \o Flatten(List([i \in 1..Len(names) |-> RowParts(names[i], categories[names[i]])]))
           \o << <<"</tbody>">>, <<"</table>">> >>)

\* The table of the scan st, or the exception that ended it.
TableOf(st) == IF st.exc # "none" THEN Raise(st.exc) ELSE Ok(CatalogTable(st.categories))

generate_official_categories_table(normalized_metadata, normalized_facets) ==
  TableOf(CollectCatalog(normalized_metadata, normalized_facets))

\* ---------------------------------------------------------------- files

\* A configuration resource on disk: missing, not parseable as YAML, or a
\* document yaml.safe_load turns into the value doc (None for an empty file).
Missing == [st |-> "missing", doc |-> PNone]

Unparseable == [st |-> "invalid", doc |-> PNone]

Content(doc) == [st |-> "ok", doc |-> doc]

current_metadata == "current_metadata_structure.yaml"

current_facets == "current_facets_structure.yaml"

suggested_metadata == "suggested_metadata_structure.yaml"

suggested_facets == "suggested_facets_structure.yaml"

normalized_metadata == "normalized_metadata_structure.yaml"

normalized_facets == "normalized_facets_structure.yaml"

output_file == "dynatrace_structure_analysis.html"

\* The resources generate_html_report loads, in the order of its load calls.
LoadOrder ==
  <<current_metadata, current_facets, suggested_metadata, suggested_facets,
    normalized_metadata, normalized_facets>>

\* A loader that returns None for a resource it cannot find.
load_yaml_file_or_none(fs, filename) ==
  CASE fs[filename].st = "missing" ->
         [ret |-> PNone, printed |-> << <<"Warning: File not found", filename>> >>]
    [] fs[filename].st = "invalid" ->
         [ret |-> PDict(<<>>), printed |-> << <<"Error parsing", filename>> >>]
    [] OTHER -> [ret |-> fs[filename].doc, printed |-> <<>>]

\* What load_yaml_file returns for a resource and what it prints.
load_yaml_file(fs, filename) ==
  CASE fs[filename].st = "missing" ->
         [ret |-> PDict(<<>>), printed |-> << <<"Warning: File not found", filename>> >>]
    [] fs[filename].st = "invalid" ->
         [ret |-> PDict(<<>>), printed |-> << <<"Error parsing", filename>> >>]
    [] OTHER -> [ret |-> fs[filename].doc, printed |-> <<>>]

\* ' '.join([f'<th>{app}</th>' for app in apps])
HeaderCells == Join(<<" ">>, List([i \in 1..Len(apps) |-> <<"<th>">> \o apps[i] \o <<"</th>">>]))

\* Rows whose first one shows the suggested metadata.
ReportRowsSuggested(env) ==
  << generate_table_row(apps, env[suggested_metadata], s_metadata, FALSE),
     generate_table_row(apps, env[current_facets], s_facets, FALSE),
     generate_table_row(apps, env[normalized_metadata], s_metadata, TRUE),
     generate_table_row(apps, env[normalized_facets], s_facets, TRUE) >>

\* The four table rows of the report, in the order the template evaluates them.
ReportRows(env) ==
  << generate_table_row(apps, env[current_metadata], s_metadata, FALSE),
     generate_table_row(apps, env[current_facets], s_facets, FALSE),
     generate_table_row(apps, env[normalized_metadata], s_metadata, TRUE),
     generate_table_row(apps, env[normalized_facets], s_facets, TRUE) >>

\* The template of the report around the catalog table and the four rows.
HtmlContent(table, rows) ==
  <<"<!DOCTYPE html><html><head>...</head><body>",
    "<h2>1. Suggested Categories and Semantics</h2>">>
  \o table
  \o <<"<h2>2. Current Existing Structure</h2>", "<table>", "<thead>", "<tr>",
       "<th>Type</th>">>
  \o HeaderCells
  \o <<"</tr>", "</thead>", "<tbody>">>
  \o rows[1] \o rows[2]
  \o <<"</tbody>", "</table>",
       "<h2>3. New Structure with Semantic Dictionary</h2>", "<table>", "<thead>", "<tr>",
       "<th>Type</th>">>
  \o HeaderCells
  \o <<"</tr>", "</thead>", "<tbody>">>
  \o rows[3] \o rows[4]
  \o <<"</tbody>", "</table>", "<p><strong>Legend:</strong></p>...</body></html>">>

\* The template filled with the rows, or the exception of the first row that
\* raised.
Filled(table, rows) ==
  IF AllOk(rows) THEN Ok(HtmlContent(table, Vals(rows))) ELSE Raise(FirstExc(rows))

\* html_content of generate_html_report, from the catalog table and the
\* loaded documents.
html_report(table, env) == Filled(table, ReportRows(env))

\* ------------------------------------------------------------ the program

VARIABLES
  files,                      \* the six configuration resources on disk
  output,                     \* the report file on disk
  pc,                         \* where generate_html_report stands
  env,                        \* the documents loaded so far, by resource
  official_categories_table,  \* the catalog table, once built
  html_content,               \* the report, once assembled
  stdout,                     \* what the run printed
  exc,                        \* the exception that ended the run, or "none"
  runs                        \* completed runs before this one

vars == <<files, output, pc, env, official_categories_table, html_content, stdout, exc, runs>>

\* A fresh process on a disk that holds fs and no report yet.
Start(fs) ==
  /\ files = fs
  /\ output = [exists |-> FALSE, content |-> <<>>]
  /\ pc = "load"
  /\ env = <<>>
  /\ official_categories_table = <<>>
  /\ html_content = <<>>
  /\ stdout = <<>>
  /\ exc = "none"
  /\ runs = 0

\* One load_yaml_file call of "Load all YAML files".
LoadYamlFile ==
  /\ pc = "load"
  /\ LET n == Cardinality(DOMAIN env) + 1
         r == load_yaml_file(files, LoadOrder[n])
     IN  /\ env' = env @@ (LoadOrder[n] :> r.ret)
         /\ stdout' = stdout \o r.printed
         /\ pc' = IF n = Len(LoadOrder) THEN "catalog" ELSE "load"
  /\ UNCHANGED <<files, output, official_categories_table, html_content, exc, runs>>

\* "Generate official categories table"
GenerateOfficialCategoriesTable ==
  /\ pc = "catalog"
  /\ LET r == generate_official_categories_table(env[normalized_metadata],
                                                 env[normalized_facets])
     IN  /\ official_categories_table' = r.val
         /\ exc' = r.exc
         /\ pc' = IF r.exc = "none" THEN "html" ELSE "crashed"
  /\ UNCHANGED <<files, output, env, html_content, stdout, runs>>

\* "Generate HTML": the template, with its four generate_table_row calls.
GenerateHtml ==
  /\ pc = "html"
  /\ LET r == html_report(official_categories_table, env)
     IN  /\ html_content' = r.val
         /\ exc' = r.exc
         /\ pc' = IF r.exc = "none" THEN "write" ELSE "crashed"
  /\ UNCHANGED <<files, output, env, official_categories_table, stdout, runs>>

\* "Write HTML file"
WriteHtmlFile ==
  /\ pc = "write"
  /\ output' = [exists |-> TRUE, content |-> html_content]
  /\ stdout' = stdout \o << <<"HTML report generated successfully", output_file>> >>
  /\ pc' = "done"
  /\ UNCHANGED <<files, env, official_categories_table, html_content, exc, runs>>

Next == LoadYamlFile \/ GenerateOfficialCategoriesTable \/ GenerateHtml \/ WriteHtmlFile

\* ------------------------------------------------------------ well-formed

OpenTags ==
  {"<ul>", "<li>", "<strong>", "<code>", "<em>", "<table>", "<thead>", "<tbody>", "<tr>",
   "<td>", "<th>"}

CloseTags ==
  {"</ul>", "</li>", "</strong>", "</code>", "</em>", "</table>", "</thead>", "</tbody>",
   "</tr>", "</td>", "</th>"}

CloseOf(open) ==
  CASE open = "<ul>" -> "</ul>" [] open = "<li>" -> "</li>"
    [] open = "<strong>" -> "</strong>" [] open = "<code>" -> "</code>"
    [] open = "<em>" -> "</em>" [] open = "<table>" -> "</table>"
    [] open = "<thead>" -> "</thead>" [] open = "<tbody>" -> "</tbody>"
    [] open = "<tr>" -> "</tr>" [] open = "<td>" -> "</td>" [] open = "<th>" -> "</th>"

RECURSIVE Balanced(_, _, _)
\* Whether html[i..] closes the open elements of stack, innermost first, and
\* every element it opens, in properly nested order.
Balanced(html, i, stack) ==
  IF i > Len(html) THEN stack = <<>>
  ELSE IF html[i] \in OpenTags THEN Balanced(html, i + 1, <<html[i]>> \o stack)
  ELSE IF html[i] \in CloseTags
  THEN /\ stack # <<>>
       /\ html[i] = CloseOf(stack[1])
       /\ Balanced(html, i + 1, Tail(stack))
  ELSE Balanced(html, i + 1, stack)

\* Whether the elements of an HTML fragment are properly nested and closed.
WellFormed(html) ==
  Balanced(SelectSeq(html, LAMBDA c : c \in OpenTags \cup CloseTags), 1, <<>>)

\* ------------------------------------------------------------ input data

MaxItems == 2

MaxCats == 2

\* the sequences over S of length at most n
SeqsUpTo(S, n) == UNION {[1..k -> S] : k \in 0..n}

s_clouds == <<"c", "l", "o", "u", "d", "s">>

s_logs == <<"l", "o", "g", "s">>

\* A configuration document with the given applications (key, categories).
Document(applications) ==
  PDict(<< <<s_applications,
            PDict(List([i \in 1..Len(applications) |->
                     <<applications[i][1],
                       PDict(<< <<s_categories, applications[i][2]>> >>)>>]))>> >>)

\* The disk with the given current and normalized documents; the suggested
\* documents are missing.
Disk(cm, cf, nm, nf) ==
  (current_metadata :> cm) @@ (current_facets :> cf)
  @@ (suggested_metadata :> Missing) @@ (suggested_facets :> Missing)
  @@ (normalized_metadata :> nm) @@ (normalized_facets :> nf)

\* Keys of mapping entries, by position.
EntryKeys == << <<"p">>, <<"q">>, <<"r">>, <<"s">> >>

\* A mapping whose i-th entry has key EntryKeys[i] and value vals[i].
Keyed(vals) == PDict(List([i \in 1..Len(vals) |-> <<EntryKeys[i], vals[i]>>]))

PlainStrings == {PStr(<<"a">>), PStr(<<"b">>)}

StringLists == {PList(xs) : xs \in SeqsUpTo(PlainStrings, MaxItems)}

\* The as-is facets mapping's entry values: simple (a string, null) and
\* complex (display_name and values, each present or not).
ComplexFacets ==
  { PDict(<< <<s_display_name, PStr(<<"D">>)>>, <<s_values, PList(<<PStr(<<"a">>), PStr(<<"b">>)>>)>> >>),
    PDict(<< <<s_values, PList(<<PStr(<<"a">>)>>)>> >>),
    PDict(<< <<s_display_name, PStr(<<"D">>)>> >>),
    PDict(<< <<s_display_name, PStr(<<"E">>)>>, <<s_values, PList(<<>>)>> >>) }

SimpleFacets == {PStr(<<"x">>), PNone}

FacetMappings == {Keyed(vals) : vals \in SeqsUpTo(ComplexFacets \cup SimpleFacets, MaxItems)}

Scalars == {PStr(<<"a", "b">>), PStr(<<>>), PInt(5), PInt(0), PBool(TRUE), PBool(FALSE)}

\* The shapes of an as-is category's fields/facets value.
AsIsEntries == StringLists \cup FacetMappings \cup Scalars

\* An as-is category that is a mapping: display_name or not, and the same
\* value under fields and under facets, or neither.
AsIsMappingCategories ==
  LET names == { <<>>, << <<s_display_name, PStr(<<"N">>)>> >> }
  IN  {PDict(n) : n \in names}
      \cup {PDict(n \o << <<s_fields, e>>, <<s_facets, e>> >>) : n \in names, e \in AsIsEntries}

\* The shapes of an as-is category value: mapping, sequence, scalar, null.
AsIsCategories ==
  AsIsMappingCategories \cup StringLists \cup {PStr(<<"a", "b">>), PInt(5), PNone}

\* The categories that follow the first one of an application.
MoreCategories ==
  { PDict(<< <<s_fields, PList(<<PStr(<<"a">>)>>)>>, <<s_facets, Keyed(<<PStr(<<"x">>)>>)>> >>),
    PList(<<PStr(<<"b">>)>>),
    PNone }

\* The category mappings of one as-is application: any first category, then
\* up to MaxCats - 1 more.
AsIsCategoryMaps ==
  {PDict(<<>>)}
  \cup {Keyed(<<c>> \o more) : c \in AsIsCategories, more \in SeqsUpTo(MoreCategories, MaxCats - 1)}

AsIsDocuments == {Document(<< <<s_clouds, cats>> >>) : cats \in AsIsCategoryMaps}

\* The as-is renderer's inputs: one document, read as current metadata and as
\* current facets.
InitAsIs ==
  \E d \in AsIsDocuments : Start(Disk(Content(d), Content(d), Missing, Missing))

SpecAsIs == InitAsIs /\ [][Next]_vars

\* --------------------------------------------------- normalized documents

MaxOcc == 2

\* A normalized field or facet: semantic_key and display_name, either of
\* which may be the empty string.
SemanticField(semantic_key, display_name) ==
  PDict(<< <<s_semantic_key, PStr(semantic_key)>>, <<s_display_name, PStr(display_name)>> >>)

\* A category header: its key and the entries of its mapping other than
\* fields and facets (display_name, description).
Header(key, pairs) == [key |-> key, pairs |-> pairs]

\* One occurrence of a category in an application of the metadata ("m") or the
\* facets ("f") document, with the fields or facets it adds there.
Occurrence(pass, app, head, entries) ==
  [pass |-> pass, app |-> app, head |-> head, entries |-> entries]

RECURSIVE Uniq(_)
\* s without the repetitions of its elements
Uniq(s) ==
  IF s = <<>> THEN <<>>
  ELSE LET r == Uniq(SubSeq(s, 1, Len(s) - 1))
       IN  IF \E i \in 1..Len(r) : r[i] = s[Len(s)] THEN r ELSE Append(r, s[Len(s)])

\* The category the occurrences occs (same application, same key) make up:
\* the header of the first, the entries of all, in order.
GroupedCategory(occs, entries_key) ==
  LET entries == Flatten(List([i \in 1..Len(occs) |-> occs[i].entries]))
  IN  PDict(occs[1].head.pairs
            \o (IF entries = <<>> THEN <<>> ELSE << <<entries_key, PList(entries)>> >>))

\* The categories mapping of application app among occs, in order of first
\* occurrence.
GroupedCategories(occs, app, entries_key) ==
  LET mine == SelectSeq(occs, LAMBDA o : o.app = app)
      keys == Uniq(List([i \in 1..Len(mine) |-> mine[i].head.key]))
  IN  PDict(List([i \in 1..Len(keys) |->
                    <<keys[i],
                      GroupedCategory(SelectSeq(mine, LAMBDA o : o.head.key = keys[i]),
                                      entries_key)>>]))

\* The document of one pass that holds the occurrences occs, applications in
\* order of first occurrence.
DocumentOf(occs, pass, entries_key) ==
  LET mine == SelectSeq(occs, LAMBDA o : o.pass = pass)
      names == Uniq(List([i \in 1..Len(mine) |-> mine[i].app]))
  IN  Document(List([i \in 1..Len(names) |->
                       <<names[i], GroupedCategories(mine, names[i], entries_key)>>]))

\* The disk whose normalized documents hold the occurrences occs; the current
\* documents are missing.
NormalizedDisk(occs) ==
  Disk(Missing, Missing, Content(DocumentOf(occs, "m", s_fields)),
       Content(DocumentOf(occs, "f", s_facets)))

s_k == <<"c", "p", "u">>

s_j == <<"m", "e", "m">>

s_A == <<"C", "P", "U">>

s_B == <<"L", "o", "a", "d">>

s_Net == <<"N", "e", "t">>

s_Core == <<"C", "o", "r", "e">>

\* Fields and facets of the registry scenarios: one key under two display
\* names, a second key, and an entry with no display name.
RegistryEntries ==
  {SemanticField(s_k, s_A), SemanticField(s_k, s_B), SemanticField(s_j, s_A),
   SemanticField(s_k, <<>>)}

RegistryHeaders ==
  {Header(<<"n">>, << <<s_display_name, PStr(s_Net)>> >>),
   Header(<<"c">>, << <<s_display_name, PStr(s_Core)>> >>)}

RegistryOccurrences ==
  {Occurrence(p, a, h, <<e>>) :
     p \in {"m", "f"}, a \in {s_clouds, s_logs}, h \in RegistryHeaders, e \in RegistryEntries}

\* The registry scenarios: up to MaxOcc fields and facets, each in either
\* document, either application, a Core or another category.
InitRegistry ==
  \E occs \in SeqsUpTo(RegistryOccurrences, MaxOcc) : Start(NormalizedDisk(occs))

SpecRegistry == InitRegistry /\ [][Next]_vars

\* ---------------------------------------------------- catalog scenarios

s_App == <<"A", "p", "p">>

s_d == <<"d", "1">>

s_e == <<"e", "2">>

\* Categories Net and App, each with no description, an empty one, or one of
\* two texts.
DescribedHeaders ==
  {Header(Lower(n), << <<s_display_name, PStr(n)>> >> \o d) :
     n \in {s_Net, s_App},
     d \in {<<>>, << <<s_description, PStr(<<>>)>> >>, << <<s_description, PStr(s_d)>> >>,
            << <<s_description, PStr(s_e)>> >>}}

DescribedOccurrences ==
  {Occurrence(p, a, h, <<>>) :
     p \in {"m", "f"}, a \in {s_clouds, s_logs}, h \in DescribedHeaders}

\* The description scenarios: up to MaxOcc occurrences of two categories, in
\* either document and either application, with various descriptions.
InitDescriptions ==
  \E occs \in SeqsUpTo(DescribedOccurrences, MaxOcc) : Start(NormalizedDisk(occs))

SpecDescriptions == InitDescriptions /\ [][Next]_vars

\* Categories named by display_name (Net, App, Core) or by their key alone
\* (app).
NamedHeaders ==
  {Header(Lower(n), << <<s_display_name, PStr(n)>> >>) : n \in {s_Net, s_App, s_Core}}
  \cup {Header(<<"a", "p", "p">>, <<>>)}

\* An occurrence in the metadata of clouds or in the facets of logs, with no
\* entry, one or two.
NamedOccurrences ==
  {Occurrence(p, IF p = "m" THEN s_clouds ELSE s_logs, h, e) :
     p \in {"m", "f"}, h \in NamedHeaders,
     e \in {<<>>, <<SemanticField(s_k, s_A)>>, <<SemanticField(s_j, s_A)>>,
            <<SemanticField(s_j, s_B), SemanticField(s_k, s_B)>>}}

\* The row scenarios: up to MaxOcc occurrences of four category names, with
\* and without keys.
InitRows ==
  \E occs \in SeqsUpTo(NamedOccurrences, MaxOcc) : Start(NormalizedDisk(occs))

SpecRows == InitRows /\ [][Next]_vars

\* ------------------------------------------------------- Core scenarios

\* Categories named Core in three spellings, by display_name or by key
\* alone, and a category of another name.
CoreHeaders ==
  {Header(<<"c", "1">>, << <<s_display_name, PStr(s_Core)>> >>),
   Header(<<"c", "2">>, << <<s_display_name, PStr(<<"c", "o", "r", "e">>)>> >>),
   Header(<<"C", "O", "R", "E">>, <<>>),
   Header(<<"n">>, << <<s_display_name, PStr(s_Net)>> >>)}

CoreOccurrences ==
  {Occurrence(p, a, h, e) :
     p \in {"m", "f"}, a \in {s_clouds, s_logs}, h \in CoreHeaders,
     e \in {<<>>, <<SemanticField(s_k, s_A)>>}}

\* The Core scenarios: up to MaxOcc categories, named Core or not, with or
\* without a field or facet, in either document and either application.
InitCore ==
  \E occs \in SeqsUpTo(CoreOccurrences, MaxOcc) : Start(NormalizedDisk(occs))

SpecCore == InitCore /\ [][Next]_vars

\* ------------------------------------------------- migration scenarios

s_current_old == <<"o", "l", "d">>

\* The optional parts of a structured entry: each the empty list of pairs
\* or one pair.
DisplayNames == {<<>>, << <<s_display_name, PStr(s_A)>> >>}

CurrentKeys ==
  {<<>>, << <<s_current_key, PStr(<<>>)>> >>, << <<s_current_key, PStr(s_A)>> >>,
   << <<s_current_key, PStr(s_current_old)>> >>}

ValueLists == {<<>>, << <<s_values, PList(<<PStr(<<"a">>)>>)>> >>}

\* The entries of a normalized fields or facets list: structured ones, with
\* or without display_name, current_key and values, and a plain string.
MigrationEntries ==
  {PDict(<< <<s_semantic_key, PStr(s_k)>> >> \o d \o c \o v) :
     d \in DisplayNames, c \in CurrentKeys, v \in ValueLists}
  \cup {PStr(<<"b">>)}

\* The normalized document of one application with one category Net whose
\* fields and facets are both the list entries.
MigrationDocument(entries) ==
  Document(<< <<s_clouds,
               PDict(<< <<<<"n">>,
                          PDict(<< <<s_display_name, PStr(s_Net)>>,
                                   <<s_fields, PList(entries)>>,
                                   <<s_facets, PList(entries)>> >>)>> >>)>> >>)

\* The migration scenarios: a category of up to MaxItems entries, read as
\* normalized metadata and as normalized facets.
InitNormalized ==
  \E entries \in SeqsUpTo(MigrationEntries, MaxItems) :
    Start(Disk(Missing, Missing, Content(MigrationDocument(entries)),
               Content(MigrationDocument(entries))))

SpecNormalized == InitNormalized /\ [][Next]_vars

\* ------------------------------------------------- missing resources

\* A document of the application logs alone, with one category that has a
\* field and a facet.
LogsDocument ==
  Document(<< <<s_logs,
               PDict(<< <<<<"n">>,
                          PDict(<< <<s_display_name, PStr(s_Net)>>,
                                   <<s_fields, PList(<<SemanticField(s_k, s_A)>>)>>,
                                   <<s_facets, PList(<<SemanticField(s_j, s_B)>>)>> >>)>> >>)>> >>)

\* What a resource may be: missing, not parseable, an empty file (which
\* yaml.safe_load reads as None), or a document.
ResourceStates == {Missing, Unparseable, Content(PNone), Content(LogsDocument)}

\* The missing-resource scenarios: each of the six resources in any state.
InitMissing ==
  \E fs \in [{LoadOrder[i] : i \in 1..Len(LoadOrder)} -> ResourceStates] : Start(fs)

SpecMissing == InitMissing /\ [][Next]_vars

\* ------------------------------------------------------- repeated runs

MaxRuns == 1

\* The suggested resources are edited and the program is started again: a
\* fresh process on the disk the last run left.
EditSuggestedAndRerun ==
  /\ pc \in {"done", "crashed"}
  /\ runs < MaxRuns
  /\ \E sm, sf \in ResourceStates :
       /\ files' = [files EXCEPT ![suggested_metadata] = sm, ![suggested_facets] = sf]
       /\ files' # files
  /\ pc' = "load"
  /\ env' = <<>>
  /\ official_categories_table' = <<>>
  /\ html_content' = <<>>
  /\ stdout' = <<>>
  /\ exc' = "none"
  /\ runs' = runs + 1
  /\ UNCHANGED output

NextRerun == Next \/ EditSuggestedAndRerun

\* The rerun scenarios: the resources the report shows are missing or hold a
\* document, the suggested ones are in any state.
InitRerun ==
  \E fs \in [{LoadOrder[i] : i \in 1..Len(LoadOrder)} -> ResourceStates] :
    /\ \A f \in DOMAIN fs :
         f \notin {suggested_metadata, suggested_facets}
           => fs[f] \in {Missing, Content(LogsDocument)}
    /\ Start(fs)

SpecRerun == InitRerun /\ [][NextRerun]_vars

\* ===================================================== reading the report

\* the positions of symbol sym in text, ascending
Positions(text, sym) == SelectSeq(List([i \in 1..Len(text) |-> i]), LAMBDA i : text[i] = sym)

\* text between the n-th open and the n-th close symbol, both excluded
Enclosed(text, open, close, n) ==
  SubSeq(text, Positions(text, open)[n] + 1, Positions(text, close)[n] - 1)

\* the pieces of text enclosed by each open .. close pair, in order
AllEnclosed(text, open, close) ==
  List([n \in 1..Len(Positions(text, open)) |-> Enclosed(text, open, close, n)])

\* text without its line breaks
Unbroken(text) == SelectSeq(text, LAMBDA c : c # "\n")

HasPrefix(text, prefix) ==
  Len(prefix) <= Len(text) /\ SubSeq(text, 1, Len(prefix)) = prefix

\* whether part occurs in text as a contiguous piece
Contains(text, part) ==
  \E i \in 0..(Len(text) - Len(part)) : SubSeq(text, i + 1, i + Len(part)) = part

Range(s) == {s[i] : i \in 1..Len(s)}

\* The rows of a catalog table: for each, the category name, the description
\* and the list of key strings shown ("none" when the placeholder is shown).
CatalogRowsOf(table) ==
  LET rows == AllEnclosed(Unbroken(table), "<tr>", "</tr>")
  IN  List([n \in 1..Len(rows) |->
              [name |-> Enclosed(Enclosed(rows[n], "<td>", "</td>", 1), "<strong>", "</strong>", 1),
               description |-> Enclosed(rows[n], "<td>", "</td>", 2),
               keys |-> AllEnclosed(Enclosed(rows[n], "<td>", "</td>", 3), "<strong>", "</strong>"),
               cell |-> Enclosed(rows[n], "<td>", "</td>", 3)]])

\* whether the run has built the catalog table
CatalogBuilt == pc \in {"html", "write", "done"}

\* ------------------------------------------ reading the normalized input

\* The categories of a normalized document that are mappings, in scan order
\* (applications, then categories, in document order): for each, the
\* application, the display name (the key when there is none), the
\* description ('' when there is none) and the fields or facets.
ScannedCategories(doc, entries_key) ==
  LET applications == Get(doc, s_applications, PDict(<<>>)).v
  IN  Flatten(List([a \in 1..Len(applications) |->
        LET categories == Get(applications[a][2], s_categories, PDict(<<>>)).v
            dicts == SelectSeq(categories, LAMBDA c : IsDict(c[2]))
        IN  List([c \in 1..Len(dicts) |->
                    [app |-> applications[a][1],
                     name |-> Get(dicts[c][2], s_display_name, PStr(dicts[c][1])).v,
                     description |-> Get(dicts[c][2], s_description, PStr(<<>>)).v,
                     entries |-> Get(dicts[c][2], entries_key, PList(<<>>)).v]])]))

\* whether a category name is "core" up to case
CoreName(name) == Lower(name) = <<"c", "o", "r", "e">>

\* The occurrences of semantic keys that count in a scan: the structured
\* entries with a non-empty semantic_key and display_name of the categories
\* not named Core, in scan order.
KeyOccurrences(cats) ==
  LET kept == SelectSeq(cats, LAMBDA c : ~CoreName(c.name))
  IN  Flatten(List([c \in 1..Len(kept) |->
        LET structured ==
              SelectSeq(kept[c].entries,
                        LAMBDA e : /\ IsDict(e)
                                   /\ Get(e, s_semantic_key, PStr(<<>>)).v # <<>>
                                   /\ Get(e, s_display_name, PStr(<<>>)).v # <<>>)
        IN  List([e \in 1..Len(structured) |->
                    [category |-> kept[c].name,
                     key |-> Get(structured[e], s_semantic_key, PStr(<<>>)).v,
                     display |-> Get(structured[e], s_display_name, PStr(<<>>)).v]])]))

\* The normalized metadata and facets the run loaded, as scanned categories.
MetadataCategories == ScannedCategories(env[normalized_metadata], s_fields)

FacetsCategories == ScannedCategories(env[normalized_facets], s_facets)

\* The key occurrences of the whole scan: the metadata document, then the
\* facets document.
AllKeyOccurrences == KeyOccurrences(MetadataCategories) \o KeyOccurrences(FacetsCategories)

\* the display name of the first occurrence of key in occs
FirstDisplay(occs, key) == occs[CHOOSE i \in 1..Len(occs) : occs[i].key = key /\ \A j \in 1..(i - 1) : occs[j].key # key].display

\* "k - d"
Shown(key, display) == key \o <<" ", "-", " ">> \o display

\* ----------------------------------------------------------------- C1

\* C1: every key string of the catalog is "k - d" with d the display name of
\* the first registered occurrence of k in the scan (metadata, then facets);
\* a row holds exactly the keys that occur in its category, each once, so no
\* key is shown under two display names.
C1_CanonicalDisplayName ==
  CatalogBuilt =>
    LET occs == AllKeyOccurrences
        rows == CatalogRowsOf(official_categories_table)
    IN  \A n \in 1..Len(rows) :
          LET mine == {o \in Range(occs) : o.category = rows[n].name}
          IN  /\ Range(rows[n].keys) = {Shown(o.key, FirstDisplay(occs, o.key)) : o \in mine}
              /\ Len(rows[n].keys) = Cardinality({o.key : o \in mine})

\* A key occurs twice in one category under two display names, and the report
\* is written.
C1_Witness ==
  /\ pc = "done"
  /\ \E o1, o2 \in Range(AllKeyOccurrences) :
       o1.category = o2.category /\ o1.key = o2.key /\ o1.display # o2.display

\* ---------------------------------------------------------------- C10

\* C10: a key that occurs (with a display name) in a category not named Core
\* of the normalized metadata is shown, wherever the catalog shows it, under
\* the display name of its first such occurrence in the metadata, whatever
\* the facets document and the Core categories say.
C10_MetadataNameWins ==
  CatalogBuilt =>
    LET meta == KeyOccurrences(MetadataCategories)
        rows == CatalogRowsOf(official_categories_table)
    IN  \A o \in Range(meta) :
          /\ \E n \in 1..Len(rows) :
               rows[n].name = o.category
               /\ Shown(o.key, FirstDisplay(meta, o.key)) \in Range(rows[n].keys)
          /\ \A n \in 1..Len(rows) : \A shown \in Range(rows[n].keys) :
               HasPrefix(shown, o.key \o <<" ", "-", " ">>)
                 => shown = Shown(o.key, FirstDisplay(meta, o.key))

\* A key has a metadata occurrence outside Core and occurs under another
\* display name in a facets category of an application the metadata does not
\* list; the report is written.
C10_Witness ==
  /\ pc = "done"
  /\ \E o \in Range(KeyOccurrences(MetadataCategories)) :
       /\ \E f \in Range(FacetsCategories) : \E e \in Range(f.entries) :
            /\ ~CoreName(f.name)
            /\ \A m \in Range(MetadataCategories) : m.app # f.app
            /\ Get(e, s_semantic_key, PStr(<<>>)).v = o.key
            /\ Get(e, s_display_name, PStr(<<>>)).v \notin {<<>>, o.display}
\* ----------------------------------------------------- reading the tables

\* The as-is table (section 2) and the normalized table (section 3) of a
\* report.
AsIsTableOf(report) ==
  Enclosed(report, "<h2>2. Current Existing Structure</h2>",
           "<h2>3. New Structure with Semantic Dictionary</h2>", 1)

NormalizedTableOf(report) ==
  Enclosed(report, "<h2>3. New Structure with Semantic Dictionary</h2>",
           "<p><strong>Legend:</strong></p>...</body></html>", 1)

\* The cells of the rows of a table, row after row.
CellsOf(table) == AllEnclosed(table, "<td>", "</td>")

\* The cell of application number a (1 .. 7) in row number row (1: metadata,
\* 2: facets); each row starts with the cell of its type.
AppCell(table, row, a) == CellsOf(table)[(row - 1) * 8 + 1 + a]

\* The first category of the first application of a document (key, value).
FirstCategory(doc) == Get(doc.v[1][2].v[1][2], s_categories, PDict(<<>>)).v[1]

HasFirstCategory(doc) ==
  /\ IsDict(doc) /\ doc.v # <<>> /\ doc.v[1][2].v # <<>>
  /\ Get(doc.v[1][2].v[1][2], s_categories, PDict(<<>>)).v # <<>>

\* ----------------------------------------------------------------- C5

\* C5: the as-is renderer never raises and always returns well-formed HTML,
\* whatever the shape of the categories and of their fields and facets, in
\* metadata mode and in facets mode: no run over a current document ends in
\* an exception, and every cell of the as-is table of the report is well
\* formed.
C5_AsIsNeverRaises ==
  /\ pc # "crashed"
  /\ pc = "done" => \A c \in Range(CellsOf(AsIsTableOf(output.content))) : WellFormed(c)

\* ----------------------------------------------------------------- C8

\* the items the text of C8 describes for a facets value, without line breaks
C8_Items(facets) ==
  IF IsList(facets)
  THEN Flatten(List([i \in 1..Len(facets.v) |-> <<"<li>">> \o facets.v[i].v \o <<"</li>">>]))
  ELSE Flatten(List([i \in 1..Len(facets.v) |->
         LET key == facets.v[i][1]
             val == facets.v[i][2]
             values == Get(val, s_values, PList(<<>>)).v
         IN  IF ~IsDict(val) THEN <<"<li>">> \o key \o <<"</li>">>
             ELSE <<"<li>">> \o Get(val, s_display_name, PStr(key)).v
                  \o (IF values = <<>> THEN <<>>
                      ELSE <<"<ul>">>
                           \o Flatten(List([j \in 1..Len(values) |->
                                 <<"<li>">> \o values[j].v \o <<"</li>">>]))
                           \o <<"</ul>">>)
                  \o <<"</li>">>]))

\* C8: in the facets row of the as-is table, a category whose facets is a
\* list of n strings shows exactly n bullet items in input order; one whose
\* facets is a mapping shows one item per entry in input order, a simple
\* entry as a plain bullet of its key, a complex entry as an item labelled
\* by its display_name (its key when it has none) with its values nested
\* beneath it when they are not empty.
C8_FacetsRendering ==
  (pc = "done" /\ HasFirstCategory(env[current_facets])) =>
    LET cat == FirstCategory(env[current_facets])
        facets == Get(cat[2], s_facets, PNone)
        cell == Unbroken(AppCell(AsIsTableOf(output.content), 2, 1))
    IN  (IsDict(cat[2]) /\ (IsList(facets) \/ IsDict(facets))) =>
          HasPrefix(cell,
                    <<"<ul>", "<li>", "<strong>">>
                    \o Get(cat[2], s_display_name, PStr(cat[1])).v \o <<"</strong>">>
                    \o (IF facets.v = <<>> THEN <<>>
                        ELSE <<"<ul>">> \o C8_Items(facets) \o <<"</ul>">>)
                    \o <<"</li>">>)

\* The report is written for a category whose facets mapping has a simple
\* entry and a complex entry with a display_name and two values.
C8_Witness ==
  /\ pc = "done"
  /\ HasFirstCategory(env[current_facets])
  /\ LET cat == FirstCategory(env[current_facets])
         facets == Get(cat[2], s_facets, PNone)
     IN  /\ IsDict(cat[2]) /\ IsDict(facets)
         /\ \E i, j \in 1..Len(facets.v) :
              /\ ~IsDict(facets.v[i][2])
              /\ IsDict(facets.v[j][2])
              /\ HasKey(facets.v[j][2], s_display_name)
              /\ Len(Get(facets.v[j][2], s_values, PList(<<>>)).v) = 2
\* ----------------------------------------------------------------- C6

\* The categories of the whole scan that the catalog lists: those not named
\* Core, metadata first, then facets.
ListedCategories ==
  SelectSeq(MetadataCategories \o FacetsCategories, LAMBDA c : ~CoreName(c.name))

\* the description of the first category of cats that has this name
FirstDescription(cats, name) ==
  cats[CHOOSE i \in 1..Len(cats) : cats[i].name = name /\ \A j \in 1..(i - 1) : cats[j].name # name].description

\* C6 (as stated): the row of a display name carries the first non-empty
\* description encountered for that name in the scan, and no description
\* when every occurrence's description is empty or missing.
C6_FirstNonEmptyDescription ==
  CatalogBuilt =>
    LET rows == CatalogRowsOf(official_categories_table)
    IN  \A n \in 1..Len(rows) :
          LET described == SelectSeq(ListedCategories,
                                     LAMBDA c : c.name = rows[n].name /\ c.description # <<>>)
          IN  rows[n].description =
                IF described = <<>> THEN <<>> ELSE described[1].description

\* C6 (amended): there is one row per display name, and it carries the
\* description of the first occurrence of that name in the scan (metadata,
\* then facets), empty when that occurrence has none, whatever the later
\* occurrences say.
C6_FirstOccurrenceDescription ==
  CatalogBuilt =>
    LET rows == CatalogRowsOf(official_categories_table)
    IN  /\ {rows[n].name : n \in 1..Len(rows)} = {c.name : c \in Range(ListedCategories)}
        /\ Len(rows) = Cardinality({c.name : c \in Range(ListedCategories)})
        /\ \A n \in 1..Len(rows) :
             rows[n].description = FirstDescription(ListedCategories, rows[n].name)

\* The report is written for a category whose first occurrence has an empty
\* or no description and whose later occurrence has one.
C6_Witness ==
  /\ pc = "done"
  /\ \E i, j \in 1..Len(ListedCategories) :
       /\ i < j
       /\ ListedCategories[i].name = ListedCategories[j].name
       /\ ListedCategories[i].description = <<>>
       /\ ListedCategories[j].description # <<>>

\* ----------------------------------------------------------------- C7

\* whether text a comes before text b: at the first position where they
\* differ a has the smaller character, or a is a proper prefix of b
Before(a, b) ==
  \E i \in 1..Len(b) :
    /\ \A j \in 1..(i - 1) : j <= Len(a) /\ a[j] = b[j]
    /\ i > Len(a) \/ (i <= Len(a) /\ Ord(a[i]) < Ord(b[i]))

\* C7: the catalog has exactly one row per distinct category name other
\* than Core, in ascending order; a row's keys are those of all the
\* occurrences of its name in both documents, in ascending order; a row
\* without keys shows "No semantic keys defined".
C7_SortedRows ==
  CatalogBuilt =>
    LET rows == CatalogRowsOf(official_categories_table)
        occs == AllKeyOccurrences
    IN  /\ {rows[n].name : n \in 1..Len(rows)} = {c.name : c \in Range(ListedCategories)}
        /\ \A n \in 1..(Len(rows) - 1) : Before(rows[n].name, rows[n + 1].name)
        /\ \A n \in 1..Len(rows) :
             /\ \A o \in Range(occs) :
                  o.category = rows[n].name =>
                    \E shown \in Range(rows[n].keys) : HasPrefix(shown, Shown(o.key, <<>>))
             /\ \A shown \in Range(rows[n].keys) :
                  \E o \in Range(occs) :
                    o.category = rows[n].name /\ HasPrefix(shown, Shown(o.key, <<>>))
             /\ \A i \in 1..(Len(rows[n].keys) - 1) :
                  Before(rows[n].keys[i], rows[n].keys[i + 1])
             /\ (rows[n].keys = <<>>) =
                  (rows[n].cell = <<"<ul>", "<li>", "No semantic keys defined", "</li>", "</ul>">>)
             /\ (rows[n].keys = <<>>) =
                  (\A o \in Range(occs) : o.category # rows[n].name)

\* The report is written for a catalog of two rows, one of them with two
\* keys and one with none.
C7_Witness ==
  /\ pc = "done"
  /\ LET rows == CatalogRowsOf(official_categories_table)
     IN  /\ Len(rows) = 2
         /\ \E n, m \in 1..2 : Len(rows[n].keys) = 2 /\ rows[m].keys = <<>>
\* ----------------------------------------------------------------- C2

\* the number of the application with this key in the fixed list: clouds is
\* the first, logs the fifth
AppNumber(app) == IF app = s_clouds THEN 1 ELSE 5

\* what the normalized table shows for a category of structured entries
\* without current_key and values: its label and, beneath it, its entries
LabelAndEntries(c) ==
  <<"<li>", "<strong>">> \o c.name \o <<"</strong>">>
  \o (IF c.entries = <<>> THEN <<>>
      ELSE <<"<ul>">>
           \o Flatten(List([i \in 1..Len(c.entries) |->
                <<"<li>", "<code>">> \o Get(c.entries[i], s_semantic_key, PStr(<<>>)).v
                \o <<"</code>", " - ">> \o Get(c.entries[i], s_display_name, PStr(<<>>)).v
                \o <<"</li>">>]))
           \o <<"</ul>">>)
  \o <<"</li>">>

\* C2: no row of the catalog is named core in any spelling, while every
\* category named Core of the normalized metadata and facets is shown, label
\* and entries, in its application's cell of the normalized table.
C2_CoreOnlyInNormalizedTable ==
  /\ CatalogBuilt =>
       \A r \in Range(CatalogRowsOf(official_categories_table)) : ~CoreName(r.name)
  /\ pc = "done" =>
       /\ \A c \in Range(MetadataCategories) :
            CoreName(c.name) =>
              Contains(Unbroken(AppCell(NormalizedTableOf(output.content), 1, AppNumber(c.app))),
                       LabelAndEntries(c))
       /\ \A c \in Range(FacetsCategories) :
            CoreName(c.name) =>
              Contains(Unbroken(AppCell(NormalizedTableOf(output.content), 2, AppNumber(c.app))),
                       LabelAndEntries(c))

\* The report is written for a metadata category with display_name Core and
\* a field, next to a category of another name.
C2_Witness ==
  /\ pc = "done"
  /\ \E c \in Range(MetadataCategories) : c.name = s_Core /\ c.entries # <<>>
  /\ \E c \in Range(MetadataCategories \o FacetsCategories) : ~CoreName(c.name)

\* ----------------------------------------------------------------- C3

\* the pieces of text that start at each occurrence of sym and run up to the
\* next one (the last up to the end)
PiecesFrom(text, sym) ==
  LET at == Positions(text, sym)
  IN  List([i \in 1..Len(at) |->
              SubSeq(text, at[i], IF i < Len(at) THEN at[i + 1] - 1 ELSE Len(text))])

\* whether the items shown in cell for the structured entries of entries carry
\* the note "(was: current_key)" exactly when current_key is not empty and
\* differs from display_name
NotesAsStated(cell, entries) ==
  LET structured == SelectSeq(entries, IsDict)
      items == PiecesFrom(cell, "<code>")
  IN  /\ Len(items) = Len(structured)
      /\ \A i \in 1..Len(items) :
           LET current_key == Get(structured[i], s_current_key, PStr(<<>>)).v
               display_name == Get(structured[i], s_display_name, PStr(<<>>)).v
           IN  IF current_key # <<>> /\ current_key # display_name
               THEN Contains(items[i], <<"<em>", "(was: ">> \o current_key \o <<")", "</em>">>)
               ELSE "(was: " \notin Range(items[i])

\* C3: in the normalized table, in metadata and in facets mode, the item of
\* a structured entry carries "(was: current_key)" if and only if its
\* current_key is not empty and differs from its display_name.
C3_MigrationNote ==
  pc = "done" =>
    /\ \A c \in Range(MetadataCategories) :
         NotesAsStated(AppCell(NormalizedTableOf(output.content), 1, AppNumber(c.app)),
                       c.entries)
    /\ \A c \in Range(FacetsCategories) :
         NotesAsStated(AppCell(NormalizedTableOf(output.content), 2, AppNumber(c.app)),
                       c.entries)

\* The report is written for a category with an entry whose current_key
\* equals its display_name and an entry whose current_key differs from it.
C3_Witness ==
  /\ pc = "done"
  /\ \E c \in Range(FacetsCategories) : \E e1, e2 \in Range(c.entries) :
       /\ IsDict(e1) /\ IsDict(e2)
       /\ Get(e1, s_current_key, PStr(<<>>)).v = s_A
       /\ Get(e1, s_display_name, PStr(<<>>)).v = s_A
       /\ Get(e2, s_current_key, PStr(<<>>)).v = s_current_old
       /\ Get(e2, s_display_name, PStr(<<>>)).v = s_A
\* ----------------------------------------------------------------- C4

\* the keys of the applications the report shows, in its fixed order
AppKeys ==
  << s_clouds, <<"d", "a", "t", "a", "b", "a", "s", "e">>,
     <<"i", "n", "f", "r", "a", "_", "a", "n", "d", "_", "o", "p", "e", "r", "a", "t", "i",
       "o", "n", "s">>,
     <<"k", "u", "b", "e", "r", "n", "e", "t", "e", "s">>, s_logs,
     <<"s", "e", "r", "v", "i", "c", "e", "s">>, <<"t", "r", "a", "c", "i", "n", "g">> >>

\* the resources the report shows, with the table and the row of each
Shown4 ==
  << [file |-> current_metadata, normalized |-> FALSE, row |-> 1],
     [file |-> current_facets, normalized |-> FALSE, row |-> 2],
     [file |-> normalized_metadata, normalized |-> TRUE, row |-> 1],
     [file |-> normalized_facets, normalized |-> TRUE, row |-> 2] >>

\* whether a resource is missing or does not parse
Unavailable(f) == files[f].st \in {"missing", "invalid"}

\* the application's cell for a shown resource in a report
CellFor(report, shown, a) ==
  AppCell(IF shown.normalized THEN NormalizedTableOf(report) ELSE AsIsTableOf(report),
          shown.row, a)

\* whether every resource the report shows is unavailable or holds a document
ShownAreDocuments ==
  \A i \in 1..4 : Unavailable(Shown4[i].file) \/ IsDict(files[Shown4[i].file].doc)

\* C4: a resource that is missing or does not parse loads as the empty
\* mapping and the run goes on to the next load; when every resource the
\* report shows is unavailable or holds a document, no step of the run ends
\* in an exception, and the run ends with the report written, each row with
\* one cell per application, in the fixed order, the cell of an application
\* absent from the dataset reading "No categories".
C4_MissingResources ==
  /\ \A f \in DOMAIN env : Unavailable(f) => env[f] = PDict(<<>>)
  /\ pc = "load" => ENABLED LoadYamlFile
  /\ ShownAreDocuments =>
       /\ pc \in {"load", "catalog", "html", "write", "done"}
       /\ exc = "none"
       /\ pc = "done" =>
            /\ output.exists
            /\ output.content = html_content
            /\ Len(CellsOf(AsIsTableOf(output.content))) = 16
            /\ Len(CellsOf(NormalizedTableOf(output.content))) = 16
            /\ \A i \in 1..4 : \A a \in 1..7 :
                 LET applications == Get(env[Shown4[i].file], s_applications, PDict(<<>>))
                 IN  IF HasKey(applications, AppKeys[a])
                     THEN Contains(CellFor(output.content, Shown4[i], a), s_Net)
                     ELSE CellFor(output.content, Shown4[i], a)
                            = <<"<ul>", "<li>", "No categories", "</li>", "</ul>">>

\* The report is written when a resource it shows is missing, another does
\* not parse and a third holds a document.
C4_Witness ==
  /\ pc = "done"
  /\ files[current_metadata].st = "missing"
  /\ files[normalized_facets].st = "invalid"
  /\ files[current_facets] = Content(LogsDocument)

\* ----------------------------------------------------------------- C9

\* C9: both suggested resources are loaded in every run, and a run that
\* follows an edit of the suggested resources alone writes the report the
\* run before it wrote.
C9_SuggestedIgnored ==
  /\ [](pc \in {"catalog", "html", "write", "done"} =>
          /\ {suggested_metadata, suggested_facets} \subseteq DOMAIN env
          /\ \A f \in {suggested_metadata, suggested_facets} :
               env[f] = IF Unavailable(f) THEN PDict(<<>>) ELSE files[f].doc)
  /\ [][(pc = "write" /\ output.exists) => output'.content = output.content]_vars

\* A second run has written the report after an edit of the suggested
\* resources that left the suggested metadata a document.
C9_Witness ==
  /\ runs = 1
  /\ pc = "done"
  /\ files[suggested_metadata] = Content(LogsDocument)
  /\ output.exists
====
